---- MODULE Spec2Model ----
(***************************************************************************)
(* A state-machine model of the DirectX 12 graphics driver of ebiten:      *)
(*   internal/graphicsdriver/directx/graphics_windows.go  (Graphics, Image)*)
(*   internal/graphicsdriver/directx/pipeline_windows.go  (pipelineStates) *)
(*                                                                         *)
(* The recording thread issues the driver's calls one at a time.  The GPU  *)
(* is a second process: it consumes the command queue in FIFO order and    *)
(* completes fences.  A Go pointer is modelled by TRUE (non-nil) or FALSE  *)
(* (nil); a transient buffer is named by its kind, slot and position,      *)
(* because the code keeps a buffer at its position for the process         *)
(* lifetime.                                                               *)
(***************************************************************************)
EXTENDS Integers, Sequences, FiniteSets, TLC

\* ---------------------------------------------------------------- constants

frameCount == 2

numDescriptorsPerFrame == 256

\* 1 + graphics.ShaderImageNum; the layout comment of initialize reads
\* "5n+0: constants, 5n+m (1<=4): textures".
numConstantBufferAndSourceTextures == 5

\* ------------------------------------------------------------------- bounds

\* Image objects ever created (NewImage and NewScreenFramebufferImage).
MaxImages == 2

\* SetVertices calls per frame slot between two truncations.
MaxVertices == 1

\* Draw calls per frame slot between two truncations, in the frame scheduler
\* specification (the draw specification runs to the code's own limit).
MaxDraws == 1

\* Fence values signalled per slot.
MaxFence == 1

\* Entries of the GPU command queue not yet executed.
MaxQueue == 4

\* Composite modes the caller draws with.
NumCompositeModes == 2

\* Draw calls of the pipeline cache specification.
MaxCacheDraws == 3

Slots == 0 .. (frameCount - 1)

CompositeModes == 0 .. (NumCompositeModes - 1)

\* The resource states the driver uses (_D3D12_RESOURCE_STATE_*).
ResourceStates ==
  {"PRESENT", "RENDER_TARGET", "PIXEL_SHADER_RESOURCE", "COPY_DEST", "COPY_SOURCE"}

VARIABLES
  window,            \* Graphics.window # 0
  swapChain,         \* Graphics.swapChain # nil
  backBuffer,        \* what swapChain.GetCurrentBackBufferIndex() returns
  frameIndex,        \* Graphics.frameIndex
  fenceValues,       \* Graphics.fenceValues
  fenceCompleted,    \* what fences[s].GetCompletedValue() returns
  fenceWaitEvent,    \* Graphics.fenceWaitEvent is signalled (auto-reset event)
  eventRegs,         \* pending SetEventOnCompletion registrations <<fence, value>>
  commandList,       \* Graphics.commandList: open/closed and what it has recorded
  queue,             \* Graphics.commandQueue: submitted, not yet executed
  vertices,          \* Graphics.vertices
  indices,           \* Graphics.indices
  images,            \* the keys of Graphics.images
  imageObjs,         \* every *Image ever created, by ImageID
  screenImage,       \* Graphics.screenImage (0 is nil)
  nextImageID,       \* Graphics.nextImageID
  disposedImages,    \* Graphics.disposedImages
  renderTargets,     \* the access state of each back buffer, Graphics.renderTargets[s]
  shaderDescriptorHeap, \* the views in the shader descriptor heap, by position
  deviceObjs,        \* what Initialize created: the objects not released, the fields set
  cache,             \* pipelineStates.cache
  liveObjs,          \* device objects and blobs created by graphicsPipelineState, not released
  lastFrameIndex,    \* pipelineStates.lastFrameIndex
  constantBuffers,   \* pipelineStates.constantBuffers
  pc,                \* the recording thread: "uninit" (before Initialize), "idle",
                     \* "wait" (blocked in End), "failed", "panicked"
  call               \* what the most recent driver call did

vars ==
  << window, swapChain, backBuffer, frameIndex, fenceValues, fenceCompleted,
     fenceWaitEvent, eventRegs, commandList, queue, vertices, indices, images,
     imageObjs, screenImage, nextImageID, disposedImages, renderTargets, cache,
     liveObjs, lastFrameIndex, constantBuffers, shaderDescriptorHeap, deviceObjs, pc, call >>

gpuVars == << backBuffer, fenceCompleted, fenceWaitEvent, eventRegs, queue >>

frameVars == << frameIndex, fenceValues, commandList >>

poolVars == << vertices, indices >>

imageVars ==
  << images, imageObjs, screenImage, nextImageID, disposedImages, renderTargets >>

pipelineVars == << cache, liveObjs, lastFrameIndex, constantBuffers, shaderDescriptorHeap >>

\* ------------------------------------------------------------------ helpers

\* A Go slice of buffer pointers: its length and its backing array.  Go may
\* give the backing array more capacity than the model's arr; the extra
\* elements are nil, which is what appending nil yields too.
EmptySlice == [len |-> 0, arr |-> << >>]

\* "if cap(s) > idx { s = s[:idx+1] } else { s = append(s, nil) }"
SliceGrow(s) ==
  IF Len(s.arr) > s.len
    THEN [s EXCEPT !.len = s.len + 1]
    ELSE [len |-> s.len + 1, arr |-> Append(s.arr, FALSE)]

\* "s = s[:0]"
SliceTruncate(s) == [s EXCEPT !.len = 0]

SliceSet(s, idx, v) == [s EXCEPT !.arr[idx + 1] = v]

SliceAt(s, idx) == s.arr[idx + 1]

Buf(kind, slot, pos) == << kind, slot, pos >>

\* pipelineStatesKey and pipelineStatesValue; an object is named by a positive
\* number, 0 is nil.
NoKey == [compositeMode |-> -1, screen |-> FALSE]

NoEntry == [rootSignature |-> 0, vertexShader |-> 0, pixelShader |-> 0, state |-> 0]

\* No blend description: the build did not get as far as making one.
NoBlend ==
  [ SrcBlend |-> "none", DestBlend |-> "none", BlendOp |-> "none",
    SrcBlendAlpha |-> "none", DestBlendAlpha |-> "none", BlendOpAlpha |-> "none" ]

\* The record of one driver call; every call overwrites it.
NoCall ==
  [ op         |-> "none",
    ret        |-> "ok",
    slot       |-> 0,
    wrote      |-> {},     \* transient buffers the CPU wrote (Map, copy, Unmap)
    reclaimed  |-> {},     \* buffers of lists truncated for reuse, as <<kind, slot>>
    released   |-> {},     \* images whose backing resources were released
    resetAlloc |-> FALSE,  \* commandAllocators[frameIndex].Reset() succeeded
    wait       |-> "none", \* outcome of the fence wait
    present    |-> FALSE,  \* the argument of End
    barriers   |-> << >>,  \* the transition barriers the call recorded, in order
    steps      |-> << >>,  \* the steps of End, or of a pipeline build, that ran
    desc       |-> {},     \* descriptor-table positions a view was written into
    roots      |-> {},     \* descriptor-table positions root tables 0 and 1 point at
    idx        |-> -1,     \* the draw index
    key        |-> NoKey,  \* the pipeline key of the draw
    hit        |-> FALSE,  \* graphicsPipelineState was called with a key already cached
    compiles   |-> 0,      \* d3DCompile invocations
    creates    |-> 0,      \* device objects created by graphicsPipelineState
    blend      |-> NoBlend, \* the blend description of the pipeline state built
    psv        |-> NoEntry ] \* the entry graphicsPipelineState returned

Called(op, ret) == [NoCall EXCEPT !.op = op, !.ret = ret, !.slot = frameIndex]

CmdItem(slot, bufs, imgs) ==
  [type |-> "cmd", slot |-> slot, value |-> 0, bufs |-> bufs, imgs |-> imgs]

\* The Signal of the value before the one passed.
SigItemStale(fence, value) ==
  [type |-> "sig", slot |-> fence, value |-> value - 1, bufs |-> {}, imgs |-> {}]

SigItem(fence, value) ==
  [type |-> "sig", slot |-> fence, value |-> value, bufs |-> {}, imgs |-> {}]

ClosedList == [open |-> FALSE, alloc |-> 0, bufs |-> {}, imgs |-> {}]

\* --------------------------------------------------------------------- Init

\* The creation steps of Initialize, in order.  Each names the field it sets,
\* but "close", which closes the command list just created; the last two are
\* the steps of pipelineStates.initialize.
InitSteps ==
  << "fenceWaitEvent", "commandQueue", "commandAllocators0", "commandAllocators1",
     "fences0", "fences1", "commandList", "close", "rtvDescriptorHeap",
     "shaderDescriptorHeap", "samplerDescriptorHeap" >>

\* The objects the first n steps create.
CreatedBy(n) == {InitSteps[k] : k \in 1 .. n} \ {"close"}

\* The Graphics value before Initialize: every field is zero.
ZeroValue ==
  /\ window = FALSE
  /\ swapChain = FALSE
  /\ backBuffer = 0
  /\ frameIndex = 0
  /\ fenceValues = [s \in Slots |-> 0]
  /\ fenceCompleted = [s \in Slots |-> 0]
  /\ fenceWaitEvent = FALSE
  /\ eventRegs = {}
  /\ commandList = ClosedList
  /\ queue = << >>
  /\ vertices = [s \in Slots |-> EmptySlice]
  /\ indices = [s \in Slots |-> EmptySlice]
  /\ images = {}
  /\ imageObjs = << >>
  /\ screenImage = 0
  /\ nextImageID = 0
  /\ disposedImages = [s \in Slots |-> << >>]
  /\ renderTargets = [s \in Slots |-> "PRESENT"]
  /\ cache = << >>
  /\ liveObjs = {}
  /\ lastFrameIndex = 0
  /\ constantBuffers = [s \in Slots |-> EmptySlice]
  /\ shaderDescriptorHeap = << >>

\* The state after Initialize has succeeded: the command list was created on
\* allocator 0 and closed, the fences were created with value 0.  The back
\* buffers of a swap chain come into being in the presentable state.
Init ==
  /\ ZeroValue
  /\ deviceObjs = [live |-> CreatedBy(Len(InitSteps)), fields |-> CreatedBy(Len(InitSteps))]
  /\ pc = "idle"
  /\ call = NoCall

\* ---------------------------------------------------------------------- GPU

\* The GPU executes the head of the command queue: a command list completes,
\* or a Signal sets the fence's completed value and fires the events
\* registered for values it has reached.  Once the program has stopped on a
\* fatal error the GPU is not followed.
GPUStep ==
  /\ pc \in {"idle", "wait"}
  /\ queue # << >>
  /\ LET item == Head(queue)
         fired == {r \in eventRegs : r[1] = item.slot /\ r[2] <= item.value}
     IN  /\ queue' = Tail(queue)
         /\ IF item.type = "sig"
              THEN /\ fenceCompleted' = [fenceCompleted EXCEPT ![item.slot] = item.value]
                   /\ eventRegs' = eventRegs \ fired
                   /\ fenceWaitEvent' = (fenceWaitEvent \/ fired # {})
              ELSE UNCHANGED << fenceCompleted, eventRegs, fenceWaitEvent >>
  /\ UNCHANGED << deviceObjs, window, swapChain, backBuffer, frameVars, poolVars, imageVars,
                  pipelineVars, pc, call >>

\* -------------------------------------------------------------------- Begin

SetWindow ==
  /\ pc = "idle"
  /\ window' = TRUE
  /\ call' = Called("SetWindow", "ok")
  /\ UNCHANGED << deviceObjs, swapChain, gpuVars, frameVars, poolVars, imageVars, pipelineVars, pc >>

\* The selection that always takes slot 0.
SelectSlotZero(sc, bb) == 0

\* "g.frameIndex = 0; if g.swapChain != nil { g.frameIndex =
\* int(g.swapChain.GetCurrentBackBufferIndex()) }"
SelectSlot(sc, bb) == IF sc THEN bb ELSE 0

\* Begin selects the slot, resets its command allocator, then resets the
\* command list on it.  ID3D12CommandAllocator::Reset fails while a command
\* list recording on the allocator is open; ID3D12GraphicsCommandList::Reset
\* fails unless the list is closed.  fail names a device call that fails for
\* a reason of its own.  An error of Begin is fatal to the caller.
Begin(fail) ==
  /\ pc = "idle"
  /\ LET fi == SelectSlot(swapChain, backBuffer)
         allocErr == fail = "allocReset" \/ (commandList.open /\ commandList.alloc = fi)
         listErr == fail = "listReset" \/ commandList.open
     IN  /\ frameIndex' = fi
         /\ IF allocErr
              THEN /\ call' = [Called("Begin", "error") EXCEPT !.slot = fi]
                   /\ pc' = "failed"
                   /\ UNCHANGED commandList
              ELSE IF listErr
                THEN /\ call' = [Called("Begin", "error") EXCEPT !.slot = fi, !.resetAlloc = TRUE]
                     /\ pc' = "failed"
                     /\ UNCHANGED commandList
                ELSE /\ call' = [Called("Begin", "ok") EXCEPT !.slot = fi, !.resetAlloc = TRUE]
                     /\ pc' = "idle"
                     /\ commandList' = [open |-> TRUE, alloc |-> fi, bufs |-> {}, imgs |-> {}]
  /\ UNCHANGED << deviceObjs, window, swapChain, gpuVars, fenceValues, poolVars, imageVars, pipelineVars >>

\* ------------------------------------------------------------------- images

\* NewImage creates a texture in the shader-readable state and registers the
\* image.  A failed CreateCommittedResource consumes no ID.
NewImage(fail) ==
  /\ pc = "idle"
  /\ nextImageID < MaxImages
  /\ IF fail
       THEN /\ call' = Called("NewImage", "error")
            /\ UNCHANGED imageVars
       ELSE LET id == nextImageID + 1
                img == [ screen            |-> FALSE,
                         state             |-> "PIXEL_SHADER_RESOURCE",
                         actual            |-> "PIXEL_SHADER_RESOURCE",
                         texture           |-> TRUE,
                         stagingBuffer     |-> FALSE,
                         rtvDescriptorHeap |-> FALSE,
                         needsSync         |-> FALSE,
                         freed             |-> 0,
                         cycles            |-> 0 ]
            IN  /\ nextImageID' = id
                /\ imageObjs' = Append(imageObjs, img)
                /\ images' = images \cup {id}
                /\ call' = Called("NewImage", "ok")
                /\ UNCHANGED << screenImage, disposedImages, renderTargets >>
  /\ UNCHANGED << deviceObjs, window, swapChain, gpuVars, frameVars, poolVars, pipelineVars, pc >>

\* NewScreenFramebufferImage: updateSwapChain (which needs the window, creates
\* the swap chain on first use and reloads frameIndex), then a new screen
\* image in the presentable state; addImage makes it g.screenImage.
NewScreenFramebufferImage(fail) ==
  /\ pc = "idle"
  /\ nextImageID < MaxImages
  /\ IF ~window \/ (~swapChain /\ fail)
       THEN /\ call' = Called("NewScreenFramebufferImage", "error")
            /\ UNCHANGED << swapChain, frameIndex, imageVars >>
       ELSE LET id == nextImageID + 1
                img == [ screen            |-> TRUE,
                         state             |-> "PRESENT",
                         actual            |-> "PRESENT",
                         texture           |-> FALSE,
                         stagingBuffer     |-> FALSE,
                         rtvDescriptorHeap |-> FALSE,
                         needsSync         |-> FALSE,
                         freed             |-> 0,
                         cycles            |-> 0 ]
            IN  /\ swapChain' = TRUE
                /\ frameIndex' = backBuffer
                /\ nextImageID' = id
                /\ imageObjs' = Append(imageObjs, img)
                /\ images' = images \cup {id}
                /\ screenImage' = id
                /\ call' = [Called("NewScreenFramebufferImage", "ok") EXCEPT !.slot = backBuffer]
                /\ UNCHANGED << disposedImages, renderTargets >>
  /\ UNCHANGED << deviceObjs, window, gpuVars, fenceValues, commandList, poolVars, pipelineVars, pc >>

\* removeImage that leaves the image in the table.
removeImageKept(id) ==
  /\ images' = images
  /\ disposedImages' = [disposedImages EXCEPT ![frameIndex] = Append(@, id)]
  /\ screenImage' = IF imageObjs[id].screen THEN 0 ELSE screenImage

\* removeImage: the image leaves the table and joins the current slot's
\* disposal list; nothing is released here.
removeImage(id) ==
  /\ images' = images \ {id}
  /\ disposedImages' = [disposedImages EXCEPT ![frameIndex] = Append(@, id)]
  /\ screenImage' = IF imageObjs[id].screen THEN 0 ELSE screenImage

\* Image.Dispose, called once for an image the caller holds.
Dispose(id) ==
  /\ pc = "idle"
  /\ id \in images
  /\ removeImage(id)
  /\ call' = Called("Dispose", "ok")
  /\ UNCHANGED << deviceObjs, window, swapChain, gpuVars, frameVars, poolVars, imageObjs,
                  nextImageID, renderTargets, pipelineVars, pc >>

\* Image.disposeImpl with the texture release left out.
disposeImplLeak(img) ==
  [img EXCEPT !.rtvDescriptorHeap = FALSE, !.stagingBuffer = FALSE]

\* Image.disposeImpl: each backing object that is non-nil is released and its
\* field set to nil.  freed counts the releases of the texture.
disposeImpl(img) ==
  [img EXCEPT !.rtvDescriptorHeap = FALSE,
              !.stagingBuffer = FALSE,
              !.texture = FALSE,
              !.freed = IF img.texture THEN @ + 1 ELSE @]

\* A transiteState that records its barrier whatever the tracked state.
BarrierAlways(img, newState) == TRUE

\* Image.transiteState records a barrier unless the state is already newState.
Barrier(img, newState) == img.state # newState

\* The barriers img.transiteState(newState) records, for the image with ID id:
\* none when the tracked state is newState already, else one transition from
\* the tracked state to newState.
Barriers(id, img, newState) ==
  IF Barrier(img, newState)
    THEN << [img |-> id, before |-> img.state, after |-> newState] >>
    ELSE << >>

\* Image.transiteState: the image after the call.  state is the tracked
\* state; actual is the access state of the image's texture, which a barrier
\* puts into newState.  A barrier is recorded only on a command list that is
\* being recorded (open).
transiteState(img, newState, open) ==
  [img EXCEPT !.state = newState,
              !.actual = IF Barrier(img, newState) /\ open /\ ~img.screen THEN newState ELSE @]

\* Image.resource of a screen image is renderTargets[frameIndex]: the back
\* buffers after img.transiteState(newState).
TargetsAfter(rts, img, newState, open) ==
  IF Barrier(img, newState) /\ open /\ img.screen
    THEN [rts EXCEPT ![frameIndex] = newState]
    ELSE rts

\* -------------------------------------------------------------- SetVertices

SetVerticesFails == {"none", "createV", "createI", "mapV", "unmapV", "mapI", "unmapI"}

\* SetVertices grows the slot's vertex and index lists by one element each,
\* creates the buffer of an element that is nil, and writes both buffers
\* (Map, copy, Unmap).  On an error the deferred functions release the
\* buffers this call created and set their elements to nil.
SetVertices(fail) ==
  /\ pc = "idle"
  /\ commandList.open
  /\ LET fi == frameIndex
         vidx == vertices[fi].len
         v1 == SliceGrow(vertices[fi])
         newV == ~SliceAt(v1, vidx)
         v2 == SliceSet(v1, vidx, TRUE)
         iidx == indices[fi].len
         i1 == SliceGrow(indices[fi])
         newI == ~SliceAt(i1, iidx)
         i2 == SliceSet(i1, iidx, TRUE)
         vBack == IF newV THEN SliceSet(v2, vidx, FALSE) ELSE v2
         iBack == IF newI THEN SliceSet(i2, iidx, FALSE) ELSE i2
         vb == Buf("v", fi, vidx)
         ib == Buf("i", fi, iidx)
     IN  /\ fail = "createV" => newV
         /\ fail = "createI" => newI
         /\ CASE fail = "createV" ->
                   /\ vertices' = [vertices EXCEPT ![fi] = v1]
                   /\ UNCHANGED indices
                   /\ call' = Called("SetVertices", "error")
              [] fail = "createI" ->
                   /\ vertices' = [vertices EXCEPT ![fi] = vBack]
                   /\ indices' = [indices EXCEPT ![fi] = i1]
                   /\ call' = Called("SetVertices", "error")
              [] fail \in {"mapV", "unmapV", "mapI", "unmapI"} ->
                   /\ vertices' = [vertices EXCEPT ![fi] = vBack]
                   /\ indices' = [indices EXCEPT ![fi] = iBack]
                   /\ call' = [Called("SetVertices", "error") EXCEPT
                                 !.wrote = CASE fail = "mapV" -> {}
                                             [] fail \in {"unmapV", "mapI"} -> {vb}
                                             [] OTHER -> {vb, ib}]
              [] OTHER ->
                   /\ vertices' = [vertices EXCEPT ![fi] = v2]
                   /\ indices' = [indices EXCEPT ![fi] = i2]
                   /\ call' = [Called("SetVertices", "ok") EXCEPT !.wrote = {vb, ib}]
  /\ UNCHANGED << deviceObjs, window, swapChain, gpuVars, frameVars, imageVars, pipelineVars, pc >>

\* ----------------------------------------------------------- pipeline cache

\* The device calls of one build, in the order graphicsPipelineState makes them.
BuildSteps ==
  << "serialize", "rootSignature", "vertexShader", "pixelShader", "pipelineState" >>

PipelineFails == {BuildSteps[i] : i \in 1 .. Len(BuildSteps)}

\* The number of the step that fails; one past the last when none does.
StepNo(fail) ==
  IF fail \in PipelineFails
    THEN CHOOSE i \in 1 .. Len(BuildSteps) : BuildSteps[i] = fail
    ELSE Len(BuildSteps) + 1

\* A new object: the device hands out an address not in use.
NewObj(live) ==
  CHOOSE n \in 1 .. (Cardinality(live) + 1) :
    n \notin live /\ \A m \in 1 .. (n - 1) : m \in live

\* The deferred releases, with the one of the vertex shader blob left out.
DeferredReleasesLeak(ferr, sig, rootSignature, vsh, psh) ==
  {sig} \cup (IF ferr THEN {rootSignature, psh} ELSE {})

\* What the deferred functions of graphicsPipelineState release when it
\* returns: the serialized signature always, and the root signature and the
\* shader blobs when it returns an error (ferr # nil).
DeferredReleases(ferr, sig, rootSignature, vsh, psh) ==
  {sig} \cup (IF ferr THEN {rootSignature, vsh, psh} ELSE {})

\* The cache lookup that never hits.
LookupMiss(c, key) == FALSE

\* "if s, ok := p.cache[key]; ok { return s, nil }"
Lookup(c, key) == key \in DOMAIN c

\* The blend operations of package graphicsdriver, in the order of their
\* values: the seven the driver names and the eighth the design counts.
Operation ==
  << "Zero", "One", "SrcAlpha", "DstAlpha", "OneMinusSrcAlpha", "OneMinusDstAlpha",
     "DstColor", "Operation7" >>

\* The composite modes there are when a mode is any pair of operations.
AllCompositeModes == 0 .. (Len(Operation) * Len(Operation) - 1)

\* CompositeMode.Operations: the source and the destination operation of a
\* mode, the mode numbered by its pair.
Operations(mode) ==
  << Operation[(mode \div Len(Operation)) + 1], Operation[(mode % Len(Operation)) + 1] >>

\* operationToBlend: the switch over the operation; "panic" stands for the
\* default branch.
operationToBlend(c) ==
  CASE c = "Zero" -> "ZERO"
    [] c = "One" -> "ONE"
    [] c = "SrcAlpha" -> "SRC_ALPHA"
    [] c = "DstAlpha" -> "DEST_ALPHA"
    [] c = "OneMinusSrcAlpha" -> "INV_SRC_ALPHA"
    [] c = "OneMinusDstAlpha" -> "INV_DEST_ALPHA"
    [] c = "DstColor" -> "DEST_COLOR"
    [] OTHER -> "panic"

\* The blend fields of the render target blend description of a key.
renderTargetBlendDesc(key) ==
  LET srcOp == Operations(key.compositeMode)[1]
      dstOp == Operations(key.compositeMode)[2]
  IN  [ SrcBlend       |-> operationToBlend(srcOp),
        DestBlend      |-> operationToBlend(dstOp),
        BlendOp        |-> "ADD",
        SrcBlendAlpha  |-> operationToBlend(srcOp),
        DestBlendAlpha |-> operationToBlend(dstOp),
        BlendOpAlpha   |-> "ADD" ]

\* Building the description panics when either operation has no case.
BlendPanics(key) ==
  \E k \in {1, 2} : operationToBlend(Operations(key.compositeMode)[k]) = "panic"

\* graphicsPipelineState(key) on cache c with the objects live in use, when
\* the build step fail fails: the error, the entry returned, the cache and
\* the live objects afterwards, the build steps attempted, and how many
\* compilations and object creations were attempted.  A step creates its
\* object only if no earlier step failed; 0 stands for an object that was not
\* created.  The blend description is made after the shaders are compiled
\* and before the pipeline state is created; if making it panics, the
\* deferred functions run with ferr = nil and nothing is stored.
graphicsPipelineState(c, live, key, fail) ==
  IF Lookup(c, key)
    THEN [ err |-> FALSE, panic |-> FALSE, psv |-> c[key], cache |-> c, live |-> live,
           steps |-> << >>, compiles |-> 0, creates |-> 0, blend |-> NoBlend ]
    ELSE
      LET n == StepNo(fail)
          panic == n > 4 /\ BlendPanics(key)
          sig == IF n > 1 THEN NewObj(live) ELSE 0
          l1 == live \cup ({sig} \ {0})
          rootSignature == IF n > 2 THEN NewObj(l1) ELSE 0
          l2 == l1 \cup ({rootSignature} \ {0})
          vsh == IF n > 3 THEN NewObj(l2) ELSE 0
          l3 == l2 \cup ({vsh} \ {0})
          psh == IF n > 4 THEN NewObj(l3) ELSE 0
          l4 == l3 \cup ({psh} \ {0})
          s == IF n > 5 /\ ~panic THEN NewObj(l4) ELSE 0
          l5 == l4 \cup ({s} \ {0})
          ferr == ~panic /\ n <= Len(BuildSteps)
          psv == [ rootSignature |-> rootSignature, vertexShader |-> vsh,
                   pixelShader |-> psh, state |-> s ]
      IN  [ err      |-> ferr,
            panic    |-> panic,
            psv      |-> IF ferr \/ panic THEN NoEntry ELSE psv,
            cache    |-> IF ferr \/ panic THEN c ELSE (key :> psv) @@ c,
            live     |-> l5 \ DeferredReleases(ferr, sig, rootSignature, vsh, psh),
            steps    |-> SubSeq(BuildSteps, 1,
                                IF panic THEN 4 ELSE IF ferr THEN n ELSE Len(BuildSteps)),
            compiles |-> (IF n >= 3 THEN 1 ELSE 0) + (IF n >= 4 THEN 1 ELSE 0),
            creates  |-> (IF n >= 2 THEN 1 ELSE 0) + (IF n >= 5 /\ ~panic THEN 1 ELSE 0),
            blend    |-> IF n > 4 THEN renderTargetBlendDesc(key) ELSE NoBlend ]

\* ------------------------------------------------------------ DrawTriangles

\* "if idx >= numDescriptorsPerFrame*2"
ConstantBufferLimit == numDescriptorsPerFrame * 2

\* The offset of a draw's first descriptor in the shader descriptor heap:
\* "frameIndex*numDescriptorsPerFrame+numConstantBufferAndSourceTextures*idx".
DescriptorOffset(fi, idx) ==
  fi * numDescriptorsPerFrame + numConstantBufferAndSourceTextures * idx

\* NumDescriptors of the shader descriptor heap.
DescriptorHeapSize ==
  frameCount * numDescriptorsPerFrame * numConstantBufferAndSourceTextures

\* A view written at a position of the descriptor heap.  A position past the
\* end of the heap is not a descriptor of the heap: whatever such a write
\* hits, the heap holds no view there.
Put(heap, pos, view) ==
  IF pos < DescriptorHeapSize THEN (pos :> view) @@ heap ELSE heap

\* The constant-buffer view of a buffer, and the shader-resource view of the
\* source texture of the draw idx of slot fi.
ConstantBufferView(cb) == [kind |-> "cbv", of |-> cb]
ShaderResourceView(fi, idx) == [kind |-> "srv", of |-> << "src", fi, idx >>]

DrawFails == {"none", "rtvHeap", "createBuffer", "map", "unmap"} \cup PipelineFails

\* The list grown by one element whatever the draw index.
ExtendUnchecked(cbs, idx) == SliceGrow(cbs)

\* The slot's constant-buffer list after the capacity check and the growth by
\* one element that follows it: a draw index at the limit returns before the
\* list is touched.
Extend(cbs, idx) == IF idx >= ConstantBufferLimit THEN cbs ELSE SliceGrow(cbs)

\* The draw index the next draw of the current slot gets.
DrawIndex ==
  IF lastFrameIndex # frameIndex THEN 0 ELSE constantBuffers[frameIndex].len

\* DrawTriangles(dst, src, mode) with the default shader:
\*   dst.setAsRenderTarget (barrier, needsSync, the image's RTV heap on first
\*   use, OMSetRenderTargets); src.transiteState(shader-readable);
\*   useGraphicsPipelineState (the cached pipeline, the slot's constant buffer
\*   list, the draw's descriptors, the constant buffer update, the root
\*   tables); then the vertex and index buffer views and the draw command.
\* fail names the device call that fails, if any.  The last vertex and index
\* buffers are dereferenced: an empty list or a nil element panics.
DrawTriangles(dstID, srcID, mode, fail) ==
  /\ pc = "idle"
  /\ commandList.open
  /\ dstID \in images
  /\ srcID \in images
  /\ LET fi == frameIndex
         dst0 == imageObjs[dstID]
         needHeap == ~dst0.screen /\ ~dst0.rtvDescriptorHeap
         objs1 == [imageObjs EXCEPT
                     ![dstID] = [transiteState(dst0, "RENDER_TARGET", TRUE) EXCEPT
                                   !.needsSync = TRUE]]
         rt1 == TargetsAfter(renderTargets, dst0, "RENDER_TARGET", TRUE)
         bar1 == IF Barrier(dst0, "RENDER_TARGET") THEN {dstID} ELSE {}
         b1 == Barriers(dstID, dst0, "RENDER_TARGET")
         objs2 == [objs1 EXCEPT ![dstID].rtvDescriptorHeap = (@ \/ needHeap)]
         key == [compositeMode |-> mode, screen |-> dst0.screen]
         objs3 == [objs2 EXCEPT
                     ![srcID] = transiteState(objs2[srcID], "PIXEL_SHADER_RESOURCE", TRUE)]
         rt3 == TargetsAfter(rt1, objs2[srcID], "PIXEL_SHADER_RESOURCE", TRUE)
         bar2 == IF Barrier(objs2[srcID], "PIXEL_SHADER_RESOURCE") THEN {srcID} ELSE {}
         b2 == Barriers(srcID, objs2[srcID], "PIXEL_SHADER_RESOURCE")
         gps == graphicsPipelineState(cache, liveObjs, key, fail)
         truncate == lastFrameIndex # fi
         cbs1 == IF truncate THEN SliceTruncate(constantBuffers[fi]) ELSE constantBuffers[fi]
         idx == cbs1.len
         cbs2 == Extend(cbs1, idx)
         needBuf == ~SliceAt(cbs2, idx)
         cbs3 == SliceSet(cbs2, idx, TRUE)
         pos == DescriptorOffset(fi, idx)
         cb == Buf("c", fi, idx)
         viewed == /\ fail \notin {"rtvHeap", "createBuffer"}
                   /\ ~gps.err /\ ~gps.panic /\ idx < ConstantBufferLimit
         heap1 == IF needBuf
                    THEN Put(shaderDescriptorHeap, pos, ConstantBufferView(cb))
                    ELSE shaderDescriptorHeap
         heap2 == Put(heap1, pos + 1, ShaderResourceView(fi, idx))
         vs == vertices[fi]
         is == indices[fi]
         panics == \/ vs.len = 0 \/ is.len = 0
                   \/ ~SliceAt(vs, vs.len - 1) \/ ~SliceAt(is, is.len - 1)
         base == [Called("DrawTriangles", "error") EXCEPT !.key = key, !.barriers = b1]
         based == [base EXCEPT !.barriers = b1 \o b2]
         piped == [based EXCEPT !.hit = key \in DOMAIN cache, !.psv = gps.psv,
                               !.steps = gps.steps, !.compiles = gps.compiles,
                               !.creates = gps.creates, !.blend = gps.blend,
                               !.reclaimed = IF truncate THEN {<< "c", fi >>} ELSE {}]
         bound == [piped EXCEPT !.idx = idx,
                                !.desc = (IF needBuf THEN {pos} ELSE {}) \cup {pos + 1}]
         list(bufs, imgs) == [commandList EXCEPT !.bufs = @ \cup bufs, !.imgs = @ \cup imgs]
     IN  /\ fail = "rtvHeap" => needHeap
         /\ fail \in PipelineFails => ~Lookup(cache, key)
         /\ fail = "createBuffer" => needBuf /\ ~gps.err /\ idx < ConstantBufferLimit
         /\ fail \in {"map", "unmap"} => ~gps.err /\ idx < ConstantBufferLimit
         /\ renderTargets' = IF fail = "rtvHeap" THEN rt1 ELSE rt3
         /\ shaderDescriptorHeap' = IF viewed THEN heap2 ELSE shaderDescriptorHeap
         /\ CASE fail = "rtvHeap" ->
                   /\ imageObjs' = objs1
                   /\ commandList' = list({}, bar1)
                   /\ call' = base
                   /\ UNCHANGED << cache, liveObjs, lastFrameIndex, constantBuffers, pc >>
              [] gps.err ->
                   /\ imageObjs' = objs3
                   /\ commandList' = list({}, {dstID} \cup bar2)
                   /\ cache' = gps.cache
                   /\ liveObjs' = gps.live
                   /\ call' = [based EXCEPT !.steps = gps.steps, !.compiles = gps.compiles,
                                            !.creates = gps.creates, !.blend = gps.blend]
                   /\ UNCHANGED << lastFrameIndex, constantBuffers, pc >>
              [] gps.panic ->
                   /\ imageObjs' = objs3
                   /\ commandList' = list({}, {dstID} \cup bar2)
                   /\ cache' = gps.cache
                   /\ liveObjs' = gps.live
                   /\ call' = [based EXCEPT !.ret = "panic", !.steps = gps.steps,
                                            !.compiles = gps.compiles,
                                            !.creates = gps.creates, !.blend = gps.blend]
                   /\ pc' = "panicked"
                   /\ UNCHANGED << lastFrameIndex, constantBuffers >>
              [] ~gps.err /\ ~gps.panic /\ idx >= ConstantBufferLimit ->
                   /\ imageObjs' = objs3
                   /\ commandList' = list({}, {dstID} \cup bar2)
                   /\ cache' = gps.cache
                   /\ liveObjs' = gps.live
                   /\ lastFrameIndex' = fi
                   /\ constantBuffers' = [constantBuffers EXCEPT ![fi] = cbs2]
                   /\ call' = [piped EXCEPT !.ret = "capacity", !.idx = idx]
                   /\ UNCHANGED pc
              [] OTHER ->
                   /\ imageObjs' = objs3
                   /\ cache' = gps.cache
                   /\ liveObjs' = gps.live
                   /\ lastFrameIndex' = fi
                   /\ CASE fail = "createBuffer" ->
                             /\ constantBuffers' = [constantBuffers EXCEPT ![fi] = cbs2]
                             /\ commandList' = list({}, {dstID} \cup bar2)
                             /\ call' = [piped EXCEPT !.idx = idx]
                             /\ UNCHANGED pc
                        [] fail = "map" ->
                             /\ constantBuffers' = [constantBuffers EXCEPT ![fi] = cbs3]
                             /\ commandList' = list({}, {dstID} \cup bar2)
                             /\ call' = bound
                             /\ UNCHANGED pc
                        [] fail = "unmap" ->
                             /\ constantBuffers' = [constantBuffers EXCEPT ![fi] = cbs3]
                             /\ commandList' = list({}, {dstID} \cup bar2)
                             /\ call' = [bound EXCEPT !.wrote = {cb}]
                             /\ UNCHANGED pc
                        [] OTHER ->
                             /\ constantBuffers' = [constantBuffers EXCEPT ![fi] = cbs3]
                             /\ IF panics
                                  THEN /\ commandList' = list({cb}, {dstID, srcID})
                                       /\ call' = [bound EXCEPT !.ret = "panic", !.wrote = {cb},
                                                                !.roots = {pos, pos + 1}]
                                       /\ pc' = "panicked"
                                  ELSE /\ commandList' =
                                            list({cb, Buf("v", fi, vs.len - 1),
                                                  Buf("i", fi, is.len - 1)}, {dstID, srcID})
                                       /\ call' = [bound EXCEPT !.ret = "ok", !.wrote = {cb},
                                                                !.roots = {pos, pos + 1}]
                                       /\ UNCHANGED pc
  /\ UNCHANGED << deviceObjs, window, swapChain, gpuVars, frameIndex, fenceValues, poolVars,
                  images, screenImage, nextImageID, disposedImages >>

\* ---------------------------------------------------------------------- End

Min(a, b) == IF a < b THEN a ELSE b

\* "nextIndex := (g.frameIndex + 1) % frameCount"
\* The slot itself.
SameIndex(fi) == fi

\* "nextIndex := (g.frameIndex + 1) % frameCount"
NextIndex(fi) == (fi + 1) % frameCount

\* The images queued in a slot's disposal list.
Queued(s) == {disposedImages[s][k] : k \in 1 .. Len(disposedImages[s])}

\* The end of End(present=true), after the fence check: the other slot's
\* vertex and index lists are truncated and its queued disposals executed.
\* objs is the image table as End has left it so far.  cycles counts, for an
\* image that has been disposed and still holds its texture, the
\* End(present=true) calls that have returned without error since Dispose.
Reclaim(objs) ==
  LET nextIndex == NextIndex(frameIndex)
      objsD == [id \in DOMAIN objs |->
                  IF id \in Queued(nextIndex) THEN disposeImpl(objs[id]) ELSE objs[id]]
  IN  /\ vertices' = [vertices EXCEPT ![nextIndex] = SliceTruncate(@)]
      /\ indices' = [indices EXCEPT ![nextIndex] = SliceTruncate(@)]
      /\ imageObjs' = [id \in DOMAIN objsD |->
                         IF id \notin images /\ objsD[id].texture
                           THEN [objsD[id] EXCEPT !.cycles = Min(@ + 1, frameCount)]
                           ELSE objsD[id]]
      /\ disposedImages' = [disposedImages EXCEPT ![nextIndex] = << >>]

\* What Reclaim reports in the call record.
Reclaimed(c, objs) ==
  LET nextIndex == NextIndex(frameIndex)
  IN  [c EXCEPT !.ret = "ok",
                !.reclaimed = {<< "v", nextIndex >>, << "i", nextIndex >>},
                !.released = {id \in Queued(nextIndex) : objs[id].texture},
                !.steps = @ \o << "truncate", "dispose" >>]

EndFails == {"none", "close", "present", "signal", "setEvent"}

\* Close that fails only for a reason of the device.
CloseFailsOnFault(list, fail) == fail = "close"

\* Close that never fails.
CloseNeverFails(list, fail) == FALSE

\* "if err := g.commandList.Close(); err != nil": Close returns an error on a
\* command list that is not being recorded (already closed), or when the
\* device call fails.
CloseFails(list, fail) == ~list.open \/ fail = "close"

\* The test of the swap chain left out.
SwapChainUnchecked(sc) == FALSE

\* "if g.swapChain == nil": End returns an error at once.
SwapChainMissing(sc) == ~sc

\* The test that takes every argument for true.
PresentingAlways(present) == TRUE

\* "if present {": the test End makes before the transition of the screen
\* image and again after the submission.
Presenting(present) == present

\* End(present), up to the fence wait.  fail names the device call that
\* fails, if any; Close also fails on a command list that is not open.  An
\* error of End is fatal to the caller.  A barrier recorded on a closed
\* command list is dropped by the runtime.
End(present, fail) ==
  /\ pc = "idle"
  /\ Len(queue) + 2 <= MaxQueue
  /\ (present /\ commandList.open) => fenceValues[frameIndex] < MaxFence
  /\ fail \in {"present", "signal", "setEvent"} => present
  /\ LET fi == frameIndex
         scr == screenImage
         bar == Presenting(present) /\ Barrier(imageObjs[scr], "PRESENT")
         objsT == IF Presenting(present)
                    THEN [imageObjs EXCEPT ![scr] = transiteState(@, "PRESENT", commandList.open)]
                    ELSE imageObjs
         rtT == IF Presenting(present)
                  THEN TargetsAfter(renderTargets, imageObjs[scr], "PRESENT", commandList.open)
                  ELSE renderTargets
         listT == IF bar /\ commandList.open
                    THEN [commandList EXCEPT !.imgs = @ \cup {scr}]
                    ELSE commandList
         st0 == IF bar THEN << "barrier" >> ELSE << >>
         queue1 == Append(queue, CmdItem(listT.alloc, listT.bufs, listT.imgs))
         fv1 == [fenceValues EXCEPT ![fi] = @ + 1]
         queue2 == Append(queue1, SigItem(fi, fv1[fi]))
         nextIndex == NextIndex(fi)
         expected == fv1[nextIndex]
         actual == fenceCompleted[nextIndex]
         c(ret, steps) ==
           [Called("End", ret) EXCEPT
              !.steps = steps, !.present = present,
              !.barriers = IF Presenting(present) /\ swapChain /\ scr # 0
                             THEN Barriers(scr, imageObjs[scr], "PRESENT")
                             ELSE << >>]
     IN  IF SwapChainMissing(swapChain)
           THEN /\ call' = c("error", << >>)
                /\ pc' = "failed"
                /\ UNCHANGED << gpuVars, fenceValues, commandList, poolVars, imageVars >>
         ELSE IF Presenting(present) /\ scr = 0
           THEN /\ call' = c("panic", << >>)
                /\ pc' = "panicked"
                /\ UNCHANGED << gpuVars, fenceValues, commandList, poolVars, imageVars >>
         ELSE IF CloseFails(commandList, fail)
           THEN /\ call' = c("error", st0 \o << "close" >>)
                /\ pc' = "failed"
                /\ commandList' = [listT EXCEPT !.open = FALSE]
                /\ imageObjs' = objsT
                /\ renderTargets' = rtT
                /\ UNCHANGED << gpuVars, fenceValues, poolVars, images, screenImage,
                                nextImageID, disposedImages >>
         ELSE IF ~Presenting(present)
           THEN /\ call' = c("ok", st0 \o << "close", "execute" >>)
                /\ commandList' = [listT EXCEPT !.open = FALSE]
                /\ queue' = queue1
                /\ UNCHANGED << backBuffer, fenceCompleted, fenceWaitEvent, eventRegs,
                                fenceValues, poolVars, imageVars, pc >>
         ELSE IF fail = "present"
           THEN /\ call' = c("error", st0 \o << "close", "execute", "present" >>)
                /\ pc' = "failed"
                /\ commandList' = [listT EXCEPT !.open = FALSE]
                /\ imageObjs' = objsT
                /\ renderTargets' = rtT
                /\ queue' = queue1
                /\ UNCHANGED << backBuffer, fenceCompleted, fenceWaitEvent, eventRegs,
                                fenceValues, poolVars, images, screenImage, nextImageID,
                                disposedImages >>
         ELSE IF fail = "signal"
           THEN /\ call' = c("error", st0 \o << "close", "execute", "present", "signal" >>)
                /\ pc' = "failed"
                /\ commandList' = [listT EXCEPT !.open = FALSE]
                /\ imageObjs' = objsT
                /\ renderTargets' = rtT
                /\ queue' = queue1
                /\ backBuffer' = (backBuffer + 1) % frameCount
                /\ fenceValues' = fv1
                /\ UNCHANGED << fenceCompleted, fenceWaitEvent, eventRegs, poolVars,
                                images, screenImage, nextImageID, disposedImages >>
         ELSE IF actual < expected
           THEN /\ commandList' = [listT EXCEPT !.open = FALSE]
                /\ imageObjs' = objsT
                /\ renderTargets' = rtT
                /\ queue' = queue2
                /\ backBuffer' = (backBuffer + 1) % frameCount
                /\ fenceValues' = fv1
                /\ IF fail = "setEvent"
                     THEN /\ call' = c("error", st0 \o << "close", "execute", "present",
                                                          "signal", "wait" >>)
                          /\ pc' = "failed"
                          /\ UNCHANGED eventRegs
                     ELSE /\ call' = c("pending", st0 \o << "close", "execute", "present",
                                                            "signal", "wait" >>)
                          /\ pc' = "wait"
                          /\ eventRegs' = eventRegs \cup {<< nextIndex, expected >>}
                /\ UNCHANGED << fenceCompleted, fenceWaitEvent, poolVars, images,
                                screenImage, nextImageID, disposedImages >>
         ELSE /\ fail # "setEvent"
              /\ commandList' = [listT EXCEPT !.open = FALSE]
              /\ queue' = queue2
              /\ backBuffer' = (backBuffer + 1) % frameCount
              /\ fenceValues' = fv1
              /\ Reclaim(objsT)
              /\ renderTargets' = rtT
              /\ call' = Reclaimed(c("ok", st0 \o << "close", "execute", "present", "signal" >>),
                                   objsT)
              /\ UNCHANGED << fenceCompleted, fenceWaitEvent, eventRegs, images,
                              screenImage, nextImageID, pc >>
  /\ UNCHANGED << deviceObjs, window, swapChain, frameIndex, pipelineVars >>

\* The return of windows.WaitForSingleObject(g.fenceWaitEvent, gpuWaitTimeout):
\*   "signaled": the event was set (WAIT_OBJECT_0); the wait resets it;
\*   "timeout":  10 s passed without the event being set (WAIT_TIMEOUT);
\*   "failed":   WAIT_FAILED.
\* The function returns a non-nil error for WAIT_FAILED only, and End reads
\* nothing but the error: after "signaled" and after "timeout" alike it goes
\* on to truncate and dispose.
EndWait(outcome) ==
  /\ pc = "wait"
  /\ outcome = "signaled" => fenceWaitEvent
  /\ outcome = "timeout" => ~fenceWaitEvent
  /\ IF outcome = "failed"
       THEN /\ call' = [call EXCEPT !.ret = "error", !.wait = outcome]
            /\ pc' = "failed"
            /\ UNCHANGED << fenceWaitEvent, poolVars, imageVars >>
       ELSE /\ fenceWaitEvent' = FALSE
            /\ Reclaim(imageObjs)
            /\ call' = Reclaimed([call EXCEPT !.wait = outcome], imageObjs)
            /\ pc' = "idle"
            /\ UNCHANGED << images, screenImage, nextImageID, renderTargets >>
  /\ UNCHANGED << deviceObjs, window, swapChain, backBuffer, fenceCompleted, eventRegs, queue,
                  frameVars, pipelineVars >>

Next ==
  \/ GPUStep
  \/ SetWindow
  \/ \E fail \in {"none", "allocReset", "listReset"} : Begin(fail)
  \/ \E fail \in {FALSE} : NewImage(fail)
  \/ \E fail \in {FALSE} : NewScreenFramebufferImage(fail)
  \/ \E id \in 1 .. MaxImages : Dispose(id)
  \/ \E fail \in {"none"} :
       /\ vertices[frameIndex].len < MaxVertices
       /\ indices[frameIndex].len < MaxVertices
       /\ SetVertices(fail)
  \/ \E dst \in 1 .. MaxImages, src \in 1 .. MaxImages, fail \in {"none"} :
       /\ DrawIndex < MaxDraws
       /\ DrawTriangles(dst, src, 0, fail)
  \/ \E present \in BOOLEAN, fail \in EndFails : End(present, fail)
  \/ \E outcome \in {"signaled", "timeout", "failed"} : EndWait(outcome)

Spec == Init /\ [][Next]_vars

\* ------------------------------------------------- frame scheduler properties

\* The command lists submitted and not yet completed by the GPU.
InFlight == {k \in 1 .. Len(queue) : queue[k].type = "cmd"}

\* C1: the CPU never writes a transient vertex, index or constant buffer that
\* a submitted command list still to be completed references, and a slot's
\* buffer lists are truncated for reuse only once the slot's fence has
\* reached the slot's fence value.
C1_NoWriteWhileInFlight ==
  /\ \A k \in InFlight : call.wrote \cap queue[k].bufs = {}
  /\ \A r \in call.reclaimed : fenceCompleted[r[2]] >= fenceValues[r[2]]

\* C2: disposeImpl releases an image's backing resources only when no
\* submitted command list that references the image is still to be completed.
C2_ReleaseAfterCompletion ==
  \A i \in call.released : \A k \in InFlight : i \notin queue[k].imgs

\* The textures created by NewImage.
Textures == {i \in 1 .. Len(imageObjs) : ~imageObjs[i].screen}

\* C3: a disposed image does not keep its texture through frameCount
\* End(present=true) calls; the texture is released once at most, and the
\* command list being recorded never references an image already released.
C3_ReleasedExactlyOnce ==
  \A i \in Textures :
    /\ (i \notin images /\ imageObjs[i].texture) => imageObjs[i].cycles < frameCount
    /\ imageObjs[i].freed <= 1
    /\ i \notin images => (imageObjs[i].freed = 1 <=> ~imageObjs[i].texture)
    /\ (imageObjs[i].freed >= 1 /\ commandList.open) => i \notin commandList.imgs

\* An image that was a draw's render target, was disposed, outlived one
\* End(present=true) and was released by the next one, with the GPU idle.
C3_Witness ==
  \E i \in Textures :
    /\ imageObjs[i].needsSync
    /\ i \notin images
    /\ imageObjs[i].cycles = frameCount - 1
    /\ imageObjs[i].freed = 1
    /\ ~imageObjs[i].texture
    /\ queue = << >>
    /\ call.op = "End" /\ call.ret = "ok" /\ i \in call.released

\* C7: a fence wait that times out makes End return an error, with the other
\* slot's lists not truncated and its queued disposals not executed.
C7_TimeoutIsFatal ==
  (call.op = "End" /\ call.wait = "timeout") =>
    /\ call.ret = "error"
    /\ call.reclaimed = {}
    /\ call.released = {}

\* C10: when Begin has reset the slot's command allocator, no command list
\* submitted from that slot is still to be completed by the GPU.
C10_BeginAfterCompletion ==
  (call.op = "Begin" /\ call.resetAlloc) =>
    \A k \in InFlight : queue[k].slot # call.slot

\* ------------------------------------------------------- draws of one frame

\* The texture and the screen image of a frame that draws to the screen.
TextureImage ==
  [ screen |-> FALSE, state |-> "PIXEL_SHADER_RESOURCE",
    actual |-> "PIXEL_SHADER_RESOURCE", texture |-> TRUE,
    stagingBuffer |-> FALSE, rtvDescriptorHeap |-> FALSE, needsSync |-> FALSE,
    freed |-> 0, cycles |-> 0 ]

ScreenImage ==
  [ screen |-> TRUE, state |-> "PRESENT", actual |-> "PRESENT", texture |-> FALSE,
    stagingBuffer |-> FALSE, rtvDescriptorHeap |-> FALSE, needsSync |-> FALSE,
    freed |-> 0, cycles |-> 0 ]

\* A frame recorded in slot fi, just after its SetVertices and before its first
\* draw.  Slot 0: SetWindow, Begin, NewImage, NewScreenFramebufferImage,
\* SetVertices.  Slot 1: SetWindow, Begin, NewImage, NewScreenFramebufferImage,
\* End(present=true), the GPU completes the frame, Begin, SetVertices.
DrawStart(fi) ==
  /\ window = TRUE
  /\ swapChain = TRUE
  /\ backBuffer = fi
  /\ frameIndex = fi
  /\ fenceValues = [s \in Slots |-> IF s < fi THEN 1 ELSE 0]
  /\ fenceCompleted = [s \in Slots |-> IF s < fi THEN 1 ELSE 0]
  /\ fenceWaitEvent = FALSE
  /\ eventRegs = {}
  /\ commandList = [open |-> TRUE, alloc |-> fi, bufs |-> {}, imgs |-> {}]
  /\ queue = << >>
  /\ vertices = [s \in Slots |-> IF s = fi THEN [len |-> 1, arr |-> << TRUE >>] ELSE EmptySlice]
  /\ indices = [s \in Slots |-> IF s = fi THEN [len |-> 1, arr |-> << TRUE >>] ELSE EmptySlice]
  /\ images = {1, 2}
  /\ imageObjs = << TextureImage, ScreenImage >>
  /\ screenImage = 2
  /\ nextImageID = 2
  /\ disposedImages = [s \in Slots |-> << >>]
  /\ renderTargets = [s \in Slots |-> "PRESENT"]
  /\ cache = << >>
  /\ liveObjs = {}
  /\ lastFrameIndex = 0
  /\ constantBuffers = [s \in Slots |-> EmptySlice]
  /\ shaderDescriptorHeap = << >>
  /\ deviceObjs = [live |-> CreatedBy(Len(InitSteps)), fields |-> CreatedBy(Len(InitSteps))]
  /\ pc = "idle"
  /\ call = [NoCall EXCEPT !.op = "SetVertices", !.slot = fi,
                           !.wrote = {Buf("v", fi, 0), Buf("i", fi, 0)}]

InitDraw == \E fi \in Slots : DrawStart(fi)

\* One frame's draws of the texture to the screen, up to the limit the code
\* enforces.
NextDraw == DrawTriangles(screenImage, 1, 0, "none")

SpecDraw == InitDraw /\ [][NextDraw]_vars

\* The slot and draw-index pairs useGraphicsPipelineState accepts.
AcceptedPairs == Slots \X (0 .. (ConstantBufferLimit - 1))

\* The descriptor-table positions of a pair's constant-buffer view and
\* texture view.
Views(s, k) == {DescriptorOffset(s, k), DescriptorOffset(s, k) + 1}

\* The positions the draw just made wrote a view into or pointed a root table at.
Touched == call.desc \cup call.roots

\* C4: the descriptor-table positions of a draw are disjoint from the
\* positions of every other accepted pair of slot and draw index.
C4_RegionsDisjoint ==
  (call.op = "DrawTriangles" /\ call.ret = "ok") =>
    \A q \in AcceptedPairs :
      q # << call.slot, call.idx >> => Views(q[1], q[2]) \cap Touched = {}

\* C5: every descriptor-table position a draw writes or binds is below the
\* capacity of the table.
C5_WithinCapacity ==
  call.op = "DrawTriangles" => \A pos \in Touched : pos < DescriptorHeapSize

\* C6: a draw whose index has reached numDescriptorsPerFrame is rejected with
\* the capacity error.
C6_DrawBudget ==
  (call.op = "DrawTriangles" /\ call.idx >= numDescriptorsPerFrame) =>
    (call.ret = "capacity" /\ Touched = {})

\* ----------------------------------------------------------- pipeline cache

\* A frame's draws in every composite mode, to the screen and to the texture,
\* with every device call that can fail failing.
NextCache ==
  \E dst \in {1, 2}, mode \in CompositeModes, fail \in DrawFails :
    /\ DrawIndex < MaxCacheDraws
    /\ DrawTriangles(dst, 1, mode, fail)

SpecCache == DrawStart(0) /\ [][NextCache]_vars

\* The objects the entries of the cache hold.
CachedObjs ==
  UNION { { cache[k].rootSignature, cache[k].vertexShader, cache[k].pixelShader,
            cache[k].state } : k \in DOMAIN cache }

\* graphicsPipelineState was called by the draw that call' describes.
Looked == call'.op = "DrawTriangles" /\ (call'.hit \/ call'.steps # << >>)

\* C8: a call with a cached key returns the cached entry, compiles nothing
\* and creates nothing; no step removes or replaces an entry of the cache.
C8_Idempotent ==
  [][ /\ \A k \in DOMAIN cache : k \in DOMAIN cache' /\ cache'[k] = cache[k]
      /\ (Looked /\ call'.key \in DOMAIN cache) =>
           /\ call'.hit
           /\ call'.psv = cache[call'.key]
           /\ call'.steps = << >>
           /\ call'.compiles = 0
           /\ call'.creates = 0
           /\ liveObjs' = liveObjs
      /\ (Looked /\ call'.key \notin DOMAIN cache /\ call'.psv # NoEntry) =>
           /\ call'.steps = BuildSteps
           /\ cache'[call'.key] = call'.psv ]_vars

\* A draw that hit the cache while the cache held entries of two keys.
C8_Witness ==
  /\ call.op = "DrawTriangles"
  /\ call.ret = "ok"
  /\ call.hit
  /\ call.psv = cache[call.key]
  /\ call.psv.state # 0
  /\ Cardinality(DOMAIN cache) >= 2

\* C9: a build that fails returns the error and leaves the cache as it was;
\* a call with a key not cached attempts the build; the objects in use are
\* exactly those of the cached entries, and every cached entry is complete.
C9_FailedBuild ==
  /\ [][ /\ (Looked /\ call'.key \notin DOMAIN cache) => call'.steps # << >>
         /\ (Looked /\ call'.psv = NoEntry) =>
              /\ call'.ret = "error"
              /\ cache' = cache
              /\ liveObjs' = liveObjs ]_vars
  /\ [](liveObjs = CachedObjs)
  /\ [](\A k \in DOMAIN cache :
          /\ cache[k].rootSignature # 0
          /\ cache[k].vertexShader # 0
          /\ cache[k].pixelShader # 0
          /\ cache[k].state # 0)

\* A build that failed at its last step, after an earlier build had
\* succeeded: the key is not cached and nothing the build created is in use.
C9_Witness ==
  /\ call.op = "DrawTriangles"
  /\ call.ret = "error"
  /\ call.steps = BuildSteps
  /\ call.psv = NoEntry
  /\ call.key \notin DOMAIN cache
  /\ cache # << >>
  /\ liveObjs = CachedObjs

\* ------------------------------------------------------------ End, in detail

\* The step is a call of End with the argument present.
EndStep(present) == \E fail \in EndFails : End(present, fail)

\* C11: End(present=true) called right after an End(present=true) that
\* returned without error returns an error, and submits nothing, presents
\* nothing, signals no fence, truncates no list and disposes no image.
C11_SecondEndRejected ==
  [][ (call.op = "End" /\ call.ret = "ok" /\ call.present /\ EndStep(TRUE)) =>
        /\ call'.ret = "error"
        /\ UNCHANGED << gpuVars, fenceValues, poolVars, imageVars >> ]_vars

\* The second End(present=true) of a slot has returned its error: the back
\* buffer has moved on, no Begin has followed, and only Close was attempted.
C11_Witness ==
  /\ call.op = "End"
  /\ call.present
  /\ call.ret = "error"
  /\ call.steps = << "close" >>
  /\ ~commandList.open
  /\ frameIndex # backBuffer
  /\ fenceValues[frameIndex] = 1

\* --------------------------------------------------------- resource states

\* The access state of the GPU resource Image.resource() designates: the back
\* buffer of the current slot for a screen image, the texture otherwise.
ResourceState(i) ==
  IF imageObjs[i].screen THEN renderTargets[frameIndex] ELSE imageObjs[i].actual

\* C12: the tracked state of every registered image is the access state of
\* the resource the image designates.
C12_TrackedStateIsActual ==
  \A i \in images : imageObjs[i].state = ResourceState(i)

\* ------------------------------------------------ ReadPixels, ReplacePixels

\* "if i.screen { return errors.New(...) }" with the test left out.
OnScreenNever(img) == FALSE

\* "if i.screen { return errors.New(...) }"
OnScreen(img) == img.screen

PixelsFails == {"none", "createBuffer", "map", "unmap"}

\* Image.ensureStagingBuffer: the staging buffer is created on first use.
ensureStagingBuffer(img) == [img EXCEPT !.stagingBuffer = TRUE]

\* Image.ReadPixels: refused on the screen; else the staging buffer is
\* ensured and the image put into the copy-source state, and the call returns
\* the error saying it is not implemented.
ReadPixels(id, fail) ==
  /\ pc = "idle"
  /\ commandList.open
  /\ id \in images
  /\ fail \in {"none", "createBuffer"}
  /\ LET img == imageObjs[id]
         staged == ensureStagingBuffer(img)
     IN  /\ fail = "createBuffer" => ~OnScreen(img) /\ ~img.stagingBuffer
         /\ IF OnScreen(img) \/ fail = "createBuffer"
              THEN /\ call' = Called("ReadPixels", "error")
                   /\ UNCHANGED << imageObjs, renderTargets, commandList >>
              ELSE /\ imageObjs' = [imageObjs EXCEPT
                                      ![id] = transiteState(staged, "COPY_SOURCE", TRUE)]
                   /\ renderTargets' = TargetsAfter(renderTargets, staged, "COPY_SOURCE", TRUE)
                   /\ commandList' =
                        IF Barrier(staged, "COPY_SOURCE")
                          THEN [commandList EXCEPT !.imgs = @ \cup {id}]
                          ELSE commandList
                   /\ call' = [Called("ReadPixels", "unimplemented") EXCEPT
                                 !.barriers = Barriers(id, staged, "COPY_SOURCE")]
  /\ UNCHANGED << deviceObjs, window, swapChain, gpuVars, frameIndex, fenceValues, poolVars, images,
                  screenImage, nextImageID, disposedImages, pipelineVars, pc >>

\* Image.ReplacePixels with one region: refused on the screen; else the
\* staging buffer is ensured, needsSync cleared, the image put into the
\* copy-destination state, the staging buffer mapped and written, the copy to
\* the texture recorded, and the staging buffer unmapped.
ReplacePixels(id, fail) ==
  /\ pc = "idle"
  /\ commandList.open
  /\ id \in images
  /\ LET img == imageObjs[id]
         staged == [ensureStagingBuffer(img) EXCEPT !.needsSync = FALSE]
         moved == transiteState(staged, "COPY_DEST", TRUE)
         c(ret) == [Called("ReplacePixels", ret) EXCEPT
                      !.barriers = Barriers(id, staged, "COPY_DEST")]
     IN  /\ fail # "none" => ~OnScreen(img)
         /\ fail = "createBuffer" => ~img.stagingBuffer
         /\ IF OnScreen(img) \/ fail = "createBuffer"
              THEN /\ call' = Called("ReplacePixels", "error")
                   /\ UNCHANGED << imageObjs, renderTargets, commandList >>
              ELSE /\ imageObjs' = [imageObjs EXCEPT ![id] = moved]
                   /\ renderTargets' = TargetsAfter(renderTargets, staged, "COPY_DEST", TRUE)
                   /\ IF fail = "map"
                        THEN /\ call' = c("error")
                             /\ commandList' =
                                  IF Barrier(staged, "COPY_DEST")
                                    THEN [commandList EXCEPT !.imgs = @ \cup {id}]
                                    ELSE commandList
                        ELSE /\ call' = c(IF fail = "unmap" THEN "error" ELSE "ok")
                             /\ commandList' = [commandList EXCEPT !.imgs = @ \cup {id}]
  /\ UNCHANGED << deviceObjs, window, swapChain, gpuVars, frameIndex, fenceValues, poolVars, images,
                  screenImage, nextImageID, disposedImages, pipelineVars, pc >>

\* One frame's pixel transfers and draws on the texture and the screen image.
NextPixels ==
  \/ \E id \in {1, 2}, fail \in PixelsFails : ReadPixels(id, fail)
  \/ \E id \in {1, 2}, fail \in PixelsFails : ReplacePixels(id, fail)
  \/ \E dst \in {1, 2}, fail \in {"none", "rtvHeap"} :
       /\ DrawIndex < MaxCacheDraws
       /\ DrawTriangles(dst, 1, 0, fail)

SpecPixels == InitDraw /\ [][NextPixels]_vars

\* The barriers the call that call' describes recorded for image i.
BarriersOf(i) == SelectSeq(call'.barriers, LAMBDA b : b.img = i)

\* The tracked state that the barriers bs lead to from the tracked state st,
\* each starting where the one before it ended and changing the state.
RECURSIVE Follows(_, _)
Follows(st, bs) ==
  IF bs = << >>
    THEN st
    ELSE IF Head(bs).before = st /\ Head(bs).after # st
      THEN Follows(Head(bs).after, Tail(bs))
      ELSE "invalid"

\* What one transiteState(newState) on image id, and nothing else, makes of
\* the tracked state and of the barriers.
TransitedOnce(id, newState) ==
  /\ imageObjs'[id].state = newState
  /\ call'.barriers =
       IF imageObjs[id].state = newState
         THEN << >>
         ELSE << [img |-> id, before |-> imageObjs[id].state, after |-> newState] >>
  /\ imageObjs[id].state = newState =>
       /\ imageObjs'[id].actual = imageObjs[id].actual
       /\ renderTargets' = renderTargets

\* C13: transiteState records no barrier and changes nothing when the tracked
\* state is the new state already; else it records one barrier from the
\* tracked state to the new state and tracks the new state.
C13_TransitionBarrier ==
  [][ /\ \A i \in DOMAIN imageObjs :
           imageObjs'[i].state = Follows(imageObjs[i].state, BarriersOf(i))
      /\ \A id \in images :
           (ReadPixels(id, "none") /\ ~imageObjs[id].screen) =>
              TransitedOnce(id, "COPY_SOURCE")
      /\ \A id \in images, fail \in {"none", "map", "unmap"} :
           (ReplacePixels(id, fail) /\ ~imageObjs[id].screen) =>
              TransitedOnce(id, "COPY_DEST") ]_vars

\* ReplacePixels on a texture that was a render target recorded the one
\* barrier from RENDER_TARGET to COPY_DEST.
C13_Witness ==
  /\ call.op = "ReplacePixels"
  /\ call.ret = "ok"
  /\ call.barriers = << [img |-> 1, before |-> "RENDER_TARGET", after |-> "COPY_DEST"] >>
  /\ imageObjs[1].state = "COPY_DEST"
  /\ imageObjs[1].actual = "COPY_DEST"

\* C15: ReadPixels and ReplacePixels on a screen image return an error and
\* change nothing: no staging buffer, no barrier, the same tracked state and
\* needsSync flag.
C15_ScreenRefused ==
  [][ \A id \in images :
        (/\ imageObjs[id].screen
         /\ \E fail \in PixelsFails : ReadPixels(id, fail) \/ ReplacePixels(id, fail)) =>
          /\ call'.ret = "error"
          /\ call'.barriers = << >>
          /\ UNCHANGED << imageVars, commandList, gpuVars, poolVars, pipelineVars >> ]_vars

\* ReplacePixels was refused on the screen image while it was a render
\* target that needs synchronising.
C15_Witness ==
  /\ call.op = "ReplacePixels"
  /\ call.ret = "error"
  /\ call.barriers = << >>
  /\ imageObjs[screenImage].state = "RENDER_TARGET"
  /\ imageObjs[screenImage].needsSync
  /\ ~imageObjs[screenImage].stagingBuffer
  /\ imageObjs[1].stagingBuffer

\* --------------------------------------------------------------- Initialize

InitFails == {"none"} \cup {InitSteps[k] : k \in 1 .. Len(InitSteps)}

\* The number of the step that fails; one past the last when none does.
InitStepNo(fail) ==
  IF fail = "none"
    THEN Len(InitSteps) + 1
    ELSE CHOOSE k \in 1 .. Len(InitSteps) : InitSteps[k] = fail

\* The objects whose creation is followed by a deferred function that, on an
\* error, releases the object and clears its field.  The event handle and the
\* sampler heap have none; no step can fail after the sampler heap.
Deferred ==
  { "commandQueue", "commandAllocators0", "commandAllocators1", "fences0", "fences1",
    "commandList", "rtvDescriptorHeap", "shaderDescriptorHeap" }

\* Graphics.Initialize, the device created: the steps run in order up to the
\* one that fails, and on an error the deferred functions run.  An error is
\* fatal to the caller.
Initialize(fail) ==
  /\ pc = "uninit"
  /\ LET n == InitStepNo(fail)
         ferr == fail # "none"
         made == CreatedBy(n - 1)
         kept == IF ferr THEN made \ Deferred ELSE made
     IN  /\ deviceObjs' = [live |-> kept, fields |-> kept]
         /\ pc' = IF ferr THEN "failed" ELSE "idle"
         /\ call' = [NoCall EXCEPT !.op = "Initialize",
                                   !.ret = IF ferr THEN "error" ELSE "ok",
                                   !.steps = SubSeq(InitSteps, 1, IF ferr THEN n ELSE n - 1)]
  /\ UNCHANGED << window, swapChain, gpuVars, frameVars, poolVars, imageVars, pipelineVars >>

InitBoot ==
  /\ ZeroValue
  /\ deviceObjs = [live |-> {}, fields |-> {}]
  /\ pc = "uninit"
  /\ call = NoCall

\* Initialize with each of its steps failing, and after a success the calls
\* that set a frame up.
NextBoot ==
  \/ \E fail \in InitFails : Initialize(fail)
  \/ SetWindow
  \/ Begin("none")
  \/ \E fail \in BOOLEAN : NewImage(fail)
  \/ \E fail \in BOOLEAN : NewScreenFramebufferImage(fail)
  \/ \E fail \in SetVerticesFails :
       /\ vertices[frameIndex].len <= MaxVertices
       /\ indices[frameIndex].len <= MaxVertices
       /\ SetVertices(fail)

SpecBoot == InitBoot /\ [][NextBoot]_vars

\* C14: an Initialize that returns an error holds none of the objects it
\* created, and has cleared their fields.
C14_FailedInitHoldsNothing ==
  (call.op = "Initialize" /\ call.ret = "error") =>
    (deviceObjs.live = {} /\ deviceObjs.fields = {})

\* -------------------------------------------------------------------- blend

\* Draws to the texture and to the screen, in every composite mode, with the
\* creation of the pipeline state failing or not.
NextBlend ==
  \E dst \in {1, 2}, mode \in AllCompositeModes, fail \in {"none", "pipelineState"} :
    /\ DrawIndex < MaxDraws
    /\ DrawTriangles(dst, 1, mode, fail)

SpecBlend == DrawStart(0) /\ [][NextBlend]_vars

\* The documented image of an operation.
Documented(c) ==
  CASE c = "Zero" -> {"ZERO"}
    [] c = "One" -> {"ONE"}
    [] c = "SrcAlpha" -> {"SRC_ALPHA"}
    [] c = "DstAlpha" -> {"DEST_ALPHA"}
    [] c = "OneMinusSrcAlpha" -> {"INV_SRC_ALPHA"}
    [] c = "OneMinusDstAlpha" -> {"INV_DEST_ALPHA"}
    [] c = "DstColor" -> {"DEST_COLOR"}
    [] OTHER -> {"ZERO", "ONE", "SRC_COLOR", "INV_SRC_COLOR", "SRC_ALPHA", "INV_SRC_ALPHA",
                 "DEST_ALPHA", "INV_DEST_ALPHA", "DEST_COLOR", "INV_DEST_COLOR"}

\* The draw just made missed the cache and compiled both shaders: the build
\* got to the blend description.
BuiltBlend ==
  /\ call.op = "DrawTriangles"
  /\ ~call.hit
  /\ Len(call.steps) >= 4

C17_RejectedDrawChangesNothing ==
  [][ (call'.op = "DrawTriangles" /\ call'.ret = "capacity") =>
        /\ constantBuffers' = constantBuffers
        /\ call'.desc = {}
        /\ call'.roots = {}
        /\ call'.wrote = {}
        /\ commandList' = commandList ]_vars

C17_Witness ==
  /\ call.op = "DrawTriangles"
  /\ call.ret = "capacity"
  /\ call.idx = ConstantBufferLimit
  /\ constantBuffers[frameIndex].len = ConstantBufferLimit

\* ------------------------------------------------------ the order of End

\* The steps of End(present=true) in the order of the source text.
EndOrder ==
  << "barrier", "close", "execute", "present", "signal", "wait", "truncate", "dispose" >>

Rank(x) == CHOOSE k \in 1 .. Len(EndOrder) : EndOrder[k] = x

\* The steps ran in the order of EndOrder, and none was skipped but the
\* barrier (the screen image is presentable already) and the wait (the other
\* slot's fence has been reached already).
InOrder(steps) ==
  /\ \A i \in 1 .. Len(steps) : \E k \in 1 .. Len(EndOrder) : EndOrder[k] = steps[i]
  /\ \A i, j \in 1 .. Len(steps) : i < j => Rank(steps[i]) < Rank(steps[j])
  /\ \A i \in 1 .. Len(steps) : \A k \in 1 .. (Rank(steps[i]) - 1) :
       EndOrder[k] \notin {"barrier", "wait"} =>
         \E j \in 1 .. Len(steps) : steps[j] = EndOrder[k]

\* What a step of End has done, read from the state before and after it.
EndClosed == commandList.open /\ ~commandList'.open
EndSubmitted == Len(queue') > Len(queue) /\ queue'[Len(queue) + 1].type = "cmd"
EndPresented == backBuffer' # backBuffer
EndIncremented == fenceValues' # fenceValues
EndSignalled == Len(queue') = Len(queue) + 2 /\ queue'[Len(queue) + 2].type = "sig"
EndReclaimed == call'.reclaimed # {} \/ call'.released # {}

EndWaitStep == \E outcome \in {"signaled", "timeout", "failed"} : EndWait(outcome)

\* C18: in End(present=true) the barrier to the presentable state, Close, the
\* submission, Present, the increment and Signal of the slot's fence value,
\* the wait for the other slot's fence, the truncation of the other slot's
\* lists and its disposals happen in this order, and a step that returns an
\* error is the last one that runs.
C18_EndOrder ==
  [][ /\ EndStep(TRUE) =>
           /\ InOrder(call'.steps)
           /\ (call'.barriers # << >> /\ EndSubmitted) =>
                screenImage \in queue'[Len(queue) + 1].imgs
           /\ EndSubmitted => EndClosed
           /\ EndPresented => EndSubmitted
           /\ EndIncremented => EndPresented
           /\ EndSignalled => EndIncremented
           /\ EndReclaimed =>
                /\ EndSignalled
                /\ fenceCompleted[NextIndex(frameIndex)] >= fenceValues'[NextIndex(frameIndex)]
           /\ call'.ret = "error" =>
                /\ ~EndReclaimed
                /\ UNCHANGED poolVars
                /\ call'.steps # << >> =>
                     LET last == call'.steps[Len(call'.steps)]
                     IN  /\ last = "close" => ~EndSubmitted
                         /\ last = "present" => ~EndPresented
                         /\ last = "signal" => ~EndSignalled
                         /\ last = "wait" => eventRegs' = eventRegs
      /\ EndWaitStep =>
           /\ InOrder(call'.steps)
           /\ EndReclaimed => \A x \in {"signal", "wait"} :
                \E j \in 1 .. Len(call.steps) : call.steps[j] = x
           /\ call'.ret = "error" => (~EndReclaimed /\ UNCHANGED poolVars) ]_vars

\* An End(present=true) in which all eight steps ran.
C18_Witness ==
  /\ call.op = "End"
  /\ call.present
  /\ call.ret = "ok"
  /\ call.steps = EndOrder
  /\ call.wait = "signaled"

\* ------------------------------------------------- End without presenting

\* End(false) that only closes and submits.
EndFalseOnly ==
  /\ call'.barriers = << >>
  /\ ~EndPresented
  /\ ~EndSignalled
  /\ UNCHANGED << fenceValues, vertices, indices, disposedImages >>
  /\ UNCHANGED << imageObjs, renderTargets, fenceCompleted, eventRegs, fenceWaitEvent >>
  /\ call'.reclaimed = {}
  /\ call'.released = {}

\* C19: End(present=false) closes the command list and submits it, and does
\* nothing else: it records no transition to the presentable state, issues no
\* Present, and leaves the fence values, the vertex and index lists and the
\* disposal queues of both slots as they were.
C19_EndFalseOnlySubmits ==
  [][ EndStep(FALSE) =>
        /\ EndFalseOnly
        /\ (swapChain /\ commandList.open /\ call'.ret = "ok") =>
             /\ EndClosed
             /\ queue' = Append(queue, CmdItem(commandList.alloc, commandList.bufs,
                                               commandList.imgs)) ]_vars

\* End(false) has returned without error in a frame that drew to the screen
\* image and has vertices and a queued disposal.
C19_Witness ==
  /\ call.op = "End"
  /\ ~call.present
  /\ call.ret = "ok"
  /\ call.steps = << "close", "execute" >>
  /\ screenImage # 0
  /\ imageObjs[screenImage].state = "RENDER_TARGET"
  /\ vertices[frameIndex].len > 0
  /\ disposedImages[frameIndex] # << >>

\* ---------------------------------------------------------------- overlap

\* C20: End(present=true) of a slot waits for the other slot's last signalled
\* fence value only: what it registers the wait event for is a value of
\* another slot that the GPU has not reached, and when it returns without
\* waiting the value it has just signalled for its own slot is still to be
\* reached.
C20_WaitsForOtherSlotOnly ==
  [][ EndStep(TRUE) =>
        /\ \A r \in eventRegs' \ eventRegs :
             /\ r[1] # frameIndex
             /\ r[2] = fenceValues[r[1]]
             /\ fenceCompleted[r[1]] < r[2]
        /\ pc' = "wait" =>
             \E r \in eventRegs' :
               r[1] # frameIndex /\ r[2] = fenceValues[r[1]] /\ fenceCompleted[r[1]] < r[2]
        /\ (call'.ret = "ok" /\ pc' = "idle") =>
             /\ fenceCompleted'[frameIndex] < fenceValues'[frameIndex]
             /\ \A s \in Slots \ {frameIndex} : fenceCompleted[s] >= fenceValues[s] ]_vars

\* The next frame has been begun in the other slot and a draw recorded in it
\* while the command list End submitted from the previous slot, and the
\* Signal behind it, are still queued on the GPU.
C20_Witness ==
  /\ pc = "idle"
  /\ commandList.open
  /\ commandList.alloc = frameIndex
  /\ call.op = "DrawTriangles"
  /\ call.ret = "ok"
  /\ \E k \in 1 .. Len(queue) :
       /\ queue[k].type = "cmd"
       /\ queue[k].slot # frameIndex
       /\ fenceCompleted[queue[k].slot] < fenceValues[queue[k].slot]

\* ------------------------------------------------------------------- frames

\* Frames of draws from the texture to the screen: each is begun, draws some
\* number of times, none included, and is ended with or without presenting,
\* while the GPU works through the queue.
NextFrames ==
  \/ GPUStep
  \/ Begin("none")
  \/ /\ constantBuffers[frameIndex].len < MaxCacheDraws
     /\ DrawTriangles(screenImage, 1, 0, "none")
  \/ \E present \in BOOLEAN : End(present, "none")
  \/ EndWait("signaled")

SpecFrames == DrawStart(0) /\ [][NextFrames]_vars

DrawStep ==
  \E dst \in 1 .. MaxImages, src \in 1 .. MaxImages : DrawTriangles(dst, src, 0, "none")

\* The draws recorded in the command list since Begin reset it: each refers
\* to its own constant buffer.
DrawnInFrame == Cardinality({b \in commandList.bufs : b[1] = "c"})

\* The elements of a list that hold an allocated buffer.
Allocated(s) == {k \in 1 .. Len(s.arr) : s.arr[k]}

\* C21: the n-th draw of a frame recorded in slot s uses draw index n-1 and
\* the binding region (s, n-1), whatever the frames before it did; the
\* slot's constant-buffer list has length n afterwards and has kept the
\* buffers it had.
C21_DrawIndexCountsFromFrameStart ==
  [][ (DrawStep /\ call'.ret = "ok") =>
        /\ call'.idx = DrawnInFrame
        /\ call'.roots = Views(frameIndex, DrawnInFrame)
        /\ constantBuffers'[frameIndex].len = DrawnInFrame + 1
        /\ Allocated(constantBuffers[frameIndex]) \subseteq
             Allocated(constantBuffers'[frameIndex]) ]_vars

\* ------------------------------------------------------------ buffer reuse

\* A bound on the length of a slot's lists in SpecBuffers.
MaxBuffers == 2

\* Presenting frames that set vertices and draw, with the creation of a
\* buffer, Map and Unmap failing or not.
NextBuffers ==
  \/ GPUStep
  \/ Begin("none")
  \/ \E fail \in SetVerticesFails :
       /\ vertices[frameIndex].len < MaxBuffers
       /\ indices[frameIndex].len < MaxBuffers
       /\ SetVertices(fail)
  \/ \E fail \in {"none", "createBuffer"} :
       /\ constantBuffers[frameIndex].len < MaxBuffers
       /\ DrawTriangles(screenImage, 1, 0, fail)
  \/ End(TRUE, "none")
  \/ EndWait("signaled")

SpecBuffers == DrawStart(0) /\ [][NextBuffers]_vars

SetVerticesStep == \E fail \in SetVerticesFails : SetVertices(fail)

DrawOrFailStep ==
  \E dst \in 1 .. MaxImages, src \in 1 .. MaxImages, fail \in DrawFails :
    DrawTriangles(dst, src, 0, fail)

\* The call used position len of list s (before) and left s2: a buffer that
\* is there is reused and nothing is allocated, and a buffer is allocated
\* only at a position beyond all the slot's list has ever reached.
Reuses(s, s2) ==
  /\ (s.len + 1) \in Allocated(s) => Allocated(s2) = Allocated(s)
  /\ \A k \in Allocated(s2) \ Allocated(s) : k > Len(s.arr)

\* C22: a call that takes the next position of a slot's list reuses the
\* buffer allocated there earlier and allocates nothing, and a new buffer is
\* allocated only when the slot's list grows beyond what any earlier frame
\* reached; for the vertex and index lists and for the constant buffers.
C22_ReuseBeforeAllocate ==
  [][ /\ SetVerticesStep =>
           /\ Reuses(vertices[frameIndex], vertices'[frameIndex])
           /\ Reuses(indices[frameIndex], indices'[frameIndex])
      /\ (DrawOrFailStep /\ lastFrameIndex = frameIndex) =>
           Reuses(constantBuffers[frameIndex], constantBuffers'[frameIndex]) ]_vars

\* ------------------------------------------------------- the slot of a frame

BeginStep == \E fail \in {"none", "allocReset", "listReset"} : Begin(fail)

\* C23: Begin selects slot 0 while there is no swap chain and the swap
\* chain's current back buffer otherwise; End(present=true) moves the back
\* buffer on by one, End(present=false) leaves it, so a frame begun right
\* after a presenting End is recorded in the other slot and one begun right
\* after a non-presenting End in the same slot.
C23_SlotOfFrame ==
  [][ /\ BeginStep =>
           /\ ~swapChain => frameIndex' = 0
           /\ swapChain => frameIndex' = backBuffer
           /\ (call.op = "End" /\ call.ret = "ok" /\ call.present) =>
                frameIndex' = (frameIndex + 1) % frameCount
           /\ (call.op = "End" /\ call.ret = "ok" /\ ~call.present) =>
                frameIndex' = frameIndex
      /\ (EndStep(TRUE) /\ call'.ret \in {"ok", "pending"}) =>
           backBuffer' = (frameIndex + 1) % frameCount
      /\ EndStep(FALSE) => backBuffer' = backBuffer ]_vars

\* The frame after a presenting End of slot 0 has been begun in slot 1.
C23_Witness ==
  /\ call.op = "Begin"
  /\ call.ret = "ok"
  /\ swapChain
  /\ frameIndex = 1
  /\ fenceValues[0] = 1
  /\ commandList.open
  /\ commandList.alloc = 1

\* ------------------------------------------------------ the views of a draw

\* C24: after a draw that returned without error, for its draw index k in
\* slot s, the first position of region (s, k) of the descriptor heap holds
\* the constant-buffer view of constantBuffers[s][k], the next position the
\* shader-resource view of the draw's source texture, and root tables 0 and
\* 1 point at these two positions.
C24_RegionHoldsViews ==
  (call.op = "DrawTriangles" /\ call.ret = "ok") =>
    LET pos == DescriptorOffset(call.slot, call.idx)
    IN  /\ pos \in DOMAIN shaderDescriptorHeap
        /\ shaderDescriptorHeap[pos] = ConstantBufferView(Buf("c", call.slot, call.idx))
        /\ (pos + 1) \in DOMAIN shaderDescriptorHeap
        /\ shaderDescriptorHeap[pos + 1] = ShaderResourceView(call.slot, call.idx)
        /\ call.roots = {pos, pos + 1}

\* ------------------------------------------------- the states at the draw

\* C25: when DrawTriangles has recorded the draw command, the tracked state
\* of the destination image is RENDER_TARGET and the tracked state of the
\* source image is PIXEL_SHADER_RESOURCE, whatever identifiers were passed.
C25_StatesAtDraw ==
  [][ \A dst \in 1 .. MaxImages, src \in 1 .. MaxImages :
        (DrawTriangles(dst, src, 0, "none") /\ call'.ret = "ok") =>
          /\ imageObjs'[dst].state = "RENDER_TARGET"
          /\ imageObjs'[src].state = "PIXEL_SHADER_RESOURCE" ]_vars

\* ------------------------------------------------------------ fence values

\* C26: the fence value of a slot never decreases; it changes only in
\* End(present=true), which, once it gets to the Signal, has raised the
\* current slot's value by exactly one and left the other slot's alone, and
\* which queues the Signal of that new value unless the Signal fails; the
\* value the GPU has completed for a fence, and every value queued for it,
\* is at most the slot's fence value.
C26_FenceValuesIncrease ==
  [][ /\ \A s \in Slots : fenceValues'[s] >= fenceValues[s]
      /\ fenceValues' # fenceValues => EndStep(TRUE)
      /\ EndStep(TRUE) =>
           /\ fenceValues' \in {fenceValues, [fenceValues EXCEPT ![frameIndex] = @ + 1]}
           /\ (\E j \in 1 .. Len(call'.steps) : call'.steps[j] = "signal") <=>
                fenceValues'[frameIndex] = fenceValues[frameIndex] + 1
           /\ EndSignalled <=>
                /\ fenceValues' # fenceValues
                /\ call'.steps[Len(call'.steps)] # "signal" \/ call'.ret # "error"
           /\ EndSignalled =>
                /\ queue'[Len(queue) + 2].slot = frameIndex
                /\ queue'[Len(queue) + 2].value = fenceValues'[frameIndex]
      /\ \A s \in Slots : fenceCompleted'[s] <= fenceValues'[s]
      /\ \A k \in 1 .. Len(queue') :
           queue'[k].type = "sig" => queue'[k].value <= fenceValues'[queue'[k].slot] ]_vars

\* Both slots have signalled a value and the GPU has yet to complete the
\* later one.
C26_Witness ==
  /\ call.op = "End"
  /\ call.present
  /\ call.ret = "ok"
  /\ \A s \in Slots : fenceValues[s] = 1
  /\ fenceCompleted[0] = 1
  /\ fenceCompleted[1] = 0

\* -------------------------------------------------- End without swap chain

\* C27: End called while no swap chain exists returns an error and does
\* nothing else: the command list is neither closed nor submitted, no fence
\* value changes and none is signalled, nothing is presented, and no buffer
\* list, disposal queue or image is touched.
C27_EndWithoutSwapChain ==
  [][ \A present \in BOOLEAN :
        (~swapChain /\ EndStep(present)) =>
          /\ call'.op = "End"
          /\ call'.ret = "error"
          /\ call'.steps = << >>
          /\ call'.barriers = << >>
          /\ UNCHANGED << commandList, gpuVars, fenceValues, poolVars, imageVars >> ]_vars

\* End has returned its error in a frame that was begun and has vertices,
\* with no swap chain.
C27_Witness ==
  /\ call.op = "End"
  /\ call.ret = "error"
  /\ ~swapChain
  /\ commandList.open
  /\ vertices[frameIndex].len > 0
  /\ queue = << >>

\* --------------------------------------------------------- the screen image

\* C28: whenever a screen image is registered in the image table,
\* g.screenImage is set and refers to a registered screen image.
C28_ScreenImageRegistered ==
  (\E i \in images : imageObjs[i].screen) =>
    /\ screenImage # 0
    /\ screenImage \in images
    /\ imageObjs[screenImage].screen

\* ------------------------------------------------------ where an image is

\* How many times an image is queued in the disposal list of a slot.
TimesQueued(lists, s, i) == Cardinality({k \in 1 .. Len(lists[s]) : lists[s][k] = i})

\* The slots in whose disposal list an image is queued.
SlotsQueued(lists, i) == {s \in Slots : TimesQueued(lists, s, i) > 0}

\* An image holds none of its backing objects.
Released(img) == ~img.texture /\ ~img.stagingBuffer /\ ~img.rtvDescriptorHeap

C30_ListsPaired ==
  \A s \in Slots :
    /\ vertices[s].len = indices[s].len
    /\ \A k \in 1 .. vertices[s].len : vertices[s].arr[k]
    /\ \A k \in 1 .. indices[s].len : indices[s].arr[k]

====
